---- MODULE Spec2Model ----
(***************************************************************************)
(* The warehub document store (src/src/warehub/database.py): the class     *)
(* Database with its process-wide Dataset `_data`, the backing file, the   *)
(* record instances (Table subclasses) that the store and its callers      *)
(* share by reference, and the operations rollback, commit, get, pop, put, *)
(* last_commit, file, register_encoder and register_decoder, with the      *)
(* predicates of TableField and the equality of records.                   *)
(*                                                                         *)
(* Python objects are modelled as a heap of references: the store's tables *)
(* hold references, and so does the caller (`held`).  A record has one     *)
(* opaque field `name` (the store treats fields opaquely) and the private  *)
(* attribute `_id`.                                                        *)
(***************************************************************************)
EXTENDS Integers, Sequences, FiniteSets, TLC

VARIABLES
    heap,   \* reference -> record instance (or NoObj when the slot is unused)
    held,   \* the references the caller holds (constructed or returned by get)
    data,   \* Database._data
    files,  \* path -> content of the file at that path
    path,   \* Database._file
    encoders, \* Database._encoders: the type names that have an Encoder
    decoders, \* Database._decoders: the type names that have a Decoder
    peer,   \* a second process running the store on the same backing file
    now,    \* the wall clock read by datetime.now()
    last    \* the operation that produced this state, with its outcome

vars == <<heap, held, data, files, path, encoders, decoders, peer, now, last>>

\* what Database.file and the register_* methods set
setup == <<path, encoders, decoders>>

\* content of the backing file, cls._file.read_text()
file == files[path]

----------------------------------------------------------------------------
(* Bounds *)

MaxObjs == 2    \* record instances alive at once
MaxTime == 1    \* clock ticks
MaxPut == 2    \* records handed to one put call

Refs == 1..MaxObjs
Time == 0..MaxTime

----------------------------------------------------------------------------
(* Records *)

\* one concrete Table subclass is enough for the store, which keeps one dict
\* per table name
Classes == {"Project"}

\* put/_get: table_name = table.__name__.lower()
TableName(c) == IF c = "Project" THEN "project" ELSE "release"

Strs == {"a", "b"}
\* a field value json.dumps cannot write and no registered Encoder checks
\* (a set, a Path, bytes ...)
Unencodable == "<set>"
FieldVals == Strs \cup {Unencodable}

Transient == -1
NoObj == [cls |-> "", name |-> "", id |-> -2]

EmptyFn == [x \in {} |-> 0]

Min(S) == CHOOSE x \in S : \A y \in S : x <= y

FreeRefs(h) == {r \in Refs : h[r] = NoObj}

\* Table.__post_init__: a constructed record starts with _id = -1
NewRecord(c, v) == [cls |-> c, name |-> v, id |-> Transient]

----------------------------------------------------------------------------
(* Dataset values *)

NoStamp == -1

\* _data: None, a dict (last_commit may be missing, tables: name -> key ->
\* reference), or whatever other JSON value json.loads returned (a list)
NoneData == [kind |-> "none", last_commit |-> NoStamp, tables |-> EmptyFn]
ListData == [kind |-> "list", last_commit |-> NoStamp, tables |-> EmptyFn]
DictData(lc, tbls) == [kind |-> "dict", last_commit |-> lc, tables |-> tbls]

\* rollback's except branch: {"last_commit": datetime.now()}
FreshData(t) == DictData(t, EmptyFn)

\* the references the tables of d hold
StoredRefs(d) ==
    UNION {{d.tables[t][k] : k \in DOMAIN d.tables[t]} : t \in DOMAIN d.tables}

\* CPython frees a record once neither the caller nor _data references it
Collect(h, keep) == [r \in Refs |-> IF r \in keep THEN h[r] ELSE NoObj]

----------------------------------------------------------------------------
(* Backing file and codecs *)

\* _file: Path = Path("data.json"), and another path Database.file may be
\* given
DefaultPath == "data.json"
Paths == {DefaultPath, "other.json"}

\* the types registered at the foot of the module: Encoder(datetime, ...),
\* Decoder(datetime, ...), TableEncoder(), TableDecoder() (obj_type Table)
BuiltinTypes == {"datetime", "Table"}

\* Encoder(datetime, isoformat).encode: {"__type__": "datetime", "value": iso}
IsoFormat(t) == <<"iso", t>>
FromIsoFormat(s) == s[2]
EncodeDatetime(t) == [type |-> "datetime", value |-> IsoFormat(t)]
DecodeDatetime(e) == FromIsoFormat(e.value)
NoStampEnc == [type |-> "missing", value |-> <<>>]

\* a wrong encoder: Encoder.encode's tag, the registered base type's name
EncodeRecordBaseName(o) == [type |-> "Table", value |-> [name |-> o.name]]

\* TableEncoder.encode: {"__type__": <concrete class name>, "value": asdict(obj)}
\* (asdict takes the dataclass fields only, never _id)
EncodeRecord(o) == [type |-> o.cls, value |-> [name |-> o.name]]
\* TableDecoder.decode: sub_types(Table)[__type__](**value); _id = -1 again
DecodeRecord(e) == NewRecord(e.type, e.value.name)

AbsentFile == [kind |-> "absent",  last_commit |-> NoStampEnc, tables |-> EmptyFn]
\* not valid JSON: empty, truncated, or arbitrary text
GarbageFile == [kind |-> "garbage", last_commit |-> NoStampEnc, tables |-> EmptyFn]
\* valid JSON whose top level is not an object: []
ArrayFile == [kind |-> "array",   last_commit |-> NoStampEnc, tables |-> EmptyFn]
\* valid JSON with a "__type__" no registered decoder checks
UnknownTypeFile == [kind |-> "unknown", last_commit |-> NoStampEnc, tables |-> EmptyFn]
DocFile(lc, tbls) == [kind |-> "doc", last_commit |-> lc, tables |-> tbls]
\* the JSON document {}
EmptyObjectFile == DocFile(NoStampEnc, EmptyFn)

\* json.dumps(cls._data, default=cls._encode)
EncodeTables(d, h) ==
    [t \in DOMAIN d.tables |->
        [k \in DOMAIN d.tables[t] |-> EncodeRecord(h[d.tables[t][k]])]]

EncodeDoc(d, h) ==
    DocFile(IF d.last_commit = NoStamp THEN NoStampEnc
            ELSE EncodeDatetime(d.last_commit),
            EncodeTables(d, h))

\* Encoder.check fails for every registered encoder on some stored value
Encodable(d, h) == \A r \in StoredRefs(d) : h[r].name # Unencodable

----------------------------------------------------------------------------
(* rollback: json.loads(cls._file.read_text(), object_hook=cls._decode) *)

TableRank(t) == IF t = "project" THEN 0 ELSE 1

\* the (table, key) places of a document, and the first of them in file order
Slots(f) == UNION {{<<t, k>> : k \in DOMAIN f.tables[t]} : t \in DOMAIN f.tables}

FirstSlot(S) ==
    CHOOSE s \in S : \A u \in S :
        \/ TableRank(s[1]) < TableRank(u[1])
        \/ TableRank(s[1]) = TableRank(u[1]) /\ s[2] <= u[2]

\* object_hook: every {"__type__": <record class>, "value": ...} node becomes a
\* new record instance; the table maps its key to that instance
RECURSIVE DecodeSlots(_, _, _, _)
DecodeSlots(S, f, h, tbls) ==
    IF S = {} THEN [heap |-> h, tables |-> tbls]
    ELSE LET s == FirstSlot(S)
             r == Min(FreeRefs(h))
         IN  DecodeSlots(S \ {s}, f,
                 [h EXCEPT ![r] = DecodeRecord(f.tables[s[1]][s[2]])],
                 [tbls EXCEPT ![s[1]] = (s[2] :> r) @@ @])

DecodeDoc(f, h) ==
    LET got == DecodeSlots(Slots(f), f, h, [t \in DOMAIN f.tables |-> EmptyFn])
    IN  [heap |-> got.heap,
         data |-> DictData(IF f.last_commit = NoStampEnc THEN NoStamp
                           ELSE DecodeDatetime(f.last_commit),
                           got.tables)]

\* a wrong rollback: a document that does not decode is treated like a
\* missing file
LoadTolerant(f, d, h, keep, t) ==
    CASE f.kind \in {"absent", "garbage", "unknown"} ->
            [fault |-> "none", data |-> FreshData(t), heap |-> Collect(h, keep)]
      [] f.kind = "array" ->
            [fault |-> "none", data |-> ListData, heap |-> Collect(h, keep)]
      [] OTHER ->
            LET got == DecodeDoc(f, Collect(h, keep))
            IN  [fault |-> "none", data |-> got.data, heap |-> got.heap]

\* Database.rollback on file f, with _data = d, heap h, the caller holding
\* `keep`, at time t: the fault raised (if any), the new _data and heap
Load(f, d, h, keep, t) ==
    CASE f.kind \in {"absent", "garbage"} ->
            \* FileNotFoundError, JSONDecodeError: caught
            [fault |-> "none", data |-> FreshData(t), heap |-> Collect(h, keep)]
      [] f.kind = "array" ->
            \* json.loads returns the list; nothing checks its shape
            [fault |-> "none", data |-> ListData, heap |-> Collect(h, keep)]
      [] f.kind = "unknown" ->
            \* _decode raises TypeError before _data is assigned
            [fault |-> "decode", data |-> d, heap |-> h]
      [] OTHER ->
            LET got == DecodeDoc(f, Collect(h, keep))
            IN  [fault |-> "none", data |-> got.data, heap |-> got.heap]

\* a wrong guard: a loaded store reads again when the file no longer parses
LoadedUnlessFileGone(f, d, h, keep, t) ==
    IF d.kind = "none" \/ f.kind \in {"absent", "garbage"} THEN Load(f, d, h, keep, t)
    ELSE [fault |-> "none", data |-> d, heap |-> h]

\* `if cls._data is None: cls.rollback()` at the head of commit, put, _get
Loaded(f, d, h, keep, t) ==
    IF d.kind = "none" THEN Load(f, d, h, keep, t)
    ELSE [fault |-> "none", data |-> d, heap |-> h]

\* the heap is bounded: a load needs a free slot for every record of the file
HasRoom(f, keep) == Cardinality(Slots(f)) <= MaxObjs - Cardinality(keep)

\* `args`: for put, the entries handed over, each with the identity it had at
\* the call
Result(op, fault, outcome, args) ==
    [op |-> op, fault |-> fault, outcome |-> outcome, args |-> args]

Rollback ==
    /\ HasRoom(file, held)
    /\ LET L == Load(file, data, heap, held, now)
       IN  /\ data' = L.data
           /\ heap' = L.heap
           /\ last' = Result("rollback", L.fault,
                             IF L.fault = "none" THEN "ok" ELSE "raise", <<>>)
    /\ UNCHANGED <<held, files, now, setup, peer>>

----------------------------------------------------------------------------
(* _get, get, pop *)

\* the table _get scans: absent table (or `name not in []`) => nothing
Scanned(d, t) ==
    IF d.kind = "dict" /\ t \in DOMAIN d.tables THEN d.tables[t] ELSE EmptyFn

\* the scanned references as a sequence, by key
RECURSIVE InKeyOrder(_)
InKeyOrder(tbl) ==
    IF DOMAIN tbl = {} THEN <<>>
    ELSE LET k == Min(DOMAIN tbl)
         IN  <<tbl[k]>> \o InKeyOrder([j \in DOMAIN tbl \ {k} |-> tbl[j]])

Range(fn) == {fn[x] : x \in DOMAIN fn}

\* a wrong get: the identity written is one past the key
StampShifted(h, tbl) ==
    [r \in Refs |->
        IF r \in Range(tbl)
        THEN [h[r] EXCEPT !.id = (CHOOSE k \in DOMAIN tbl : tbl[k] = r) + 1]
        ELSE h[r]]

\* get: `entry._id = int(id)` on the very instance the table holds
Stamp(h, tbl) ==
    [r \in Refs |->
        IF r \in Range(tbl)
        THEN [h[r] EXCEPT !.id = CHOOSE k \in DOMAIN tbl : tbl[k] = r]
        ELSE h[r]]

\* get returns the instances the table holds (where = None keeps all)
Returned(tbl) == Range(tbl)

\* a field value that is not a string: an int (total_size, project_id) or
\* None (documentation)
IntValue == "<int>"
IsStr(v) == v \notin {IntValue, Unencodable}

\* the characters of the strings that occur as field values and literals
Chars(s) ==
    CASE s = "a" -> <<"a">>
      [] s = "b" -> <<"b">>
      [] s = "ab" -> <<"a", "b">>
      [] s = "^a$" -> <<"^", "a", "$">>
      [] s = "(" -> <<"(">>
      [] OTHER -> <<>>

\* re.compile(other): TypeError for a non-string, re.error for an unbalanced
\* parenthesis; ^ and $ anchor the characters between them
Compile(lit) ==
    IF ~IsStr(lit) THEN [fault |-> "TypeError", start |-> FALSE, end |-> FALSE, body |-> <<>>]
    ELSE LET cs == Chars(lit)
             start == Len(cs) > 0 /\ cs[1] = "^"
             end == Len(cs) > 0 /\ cs[Len(cs)] = "$"
             lo == IF start THEN 2 ELSE 1
             hi == IF end THEN Len(cs) - 1 ELSE Len(cs)
         IN  IF \E n \in 1..Len(cs) : cs[n] = "("
             THEN [fault |-> "re.error", start |-> FALSE, end |-> FALSE, body |-> <<>>]
             ELSE [fault |-> "none", start |-> start, end |-> end,
                   body |-> SubSeq(cs, lo, hi)]

\* pattern.search(v) is not None, for a string v
Search(pat, v) ==
    LET cs == Chars(v)
        n == Len(pat.body)
    IN  \E at \in 1..(Len(cs) - n + 1) :
            /\ SubSeq(cs, at, at + n - 1) = pat.body
            /\ pat.start => at = 1
            /\ pat.end => at + n - 1 = Len(cs)

\* where = None
NoWhere == [kind |-> "none", lit |-> ""]

\* a wrong __eq__: always the exact comparison
FieldEqExact(lit) == [kind |-> "exact", lit |-> lit]

\* TableField.__eq__(other): a Comparison that searches when other compiles,
\* one that tests == when re.compile raised re.error or TypeError
FieldEq(lit) ==
    [kind |-> IF Compile(lit).fault = "none" THEN "search" ELSE "exact", lit |-> lit]

\* the literals True and False handed over as `where`
TrueWhere == [kind |-> "true", lit |-> ""]
FalseWhere == [kind |-> "false", lit |-> ""]

\* Comparison(lambda e: e.id == k): a predicate on the identity
IdEq(k) == [kind |-> "id", lit |-> k]

\* pre_check or where.compare(table_entry): pattern.search raises TypeError
\* when the field of the entry is not a string, and the literal False has
\* no `compare` at all (AttributeError)
Matches(w, o) ==
    CASE w.kind \in {"none", "true"} -> "True"
      [] w.kind = "false" -> "raise"
      [] w.kind = "id" -> IF o.id = w.lit THEN "True" ELSE "False"
      [] w.kind = "search" ->
            IF ~IsStr(o.name) THEN "raise"
            ELSE (IF Search(Compile(w.lit), o.name) THEN "True" ELSE "False")
      [] OTHER -> IF o.name = w.lit THEN "True" ELSE "False"

\* the loop of _get over the table: it ends at the first entry whose
\* comparison raises, otherwise it keeps the entries that compare true
ScanRaises(tbl, h, w) == \E k \in DOMAIN tbl : Matches(w, h[tbl[k]]) = "raise"
Selected(tbl, h, w) ==
    LET keys == {k \in DOMAIN tbl : Matches(w, h[tbl[k]]) = "True"}
    IN  [k \in keys |-> tbl[k]]

\* the error a raising scan ends with
ScanFault(w) == IF w.kind = "false" THEN "attribute" ELSE "search"

\* what the caller asked and received: the predicate and the returned
\* records in order
Answer(w, tbl) == [where |-> w, result |-> InKeyOrder(tbl)]

GetWhere(c, w) ==
    /\ data.kind = "none" => HasRoom(file, held)
    /\ LET L == Loaded(file, data, heap, held, now)
           tbl == Scanned(L.data, TableName(c))
       IN  CASE L.fault # "none" ->
                   /\ UNCHANGED <<data, heap, held>>
                   /\ last' = Result("get", L.fault, "raise", Answer(w, EmptyFn))
             [] L.fault = "none" /\ ScanRaises(tbl, L.heap, w) ->
                   \* _get raised before get assigned any _id
                   /\ data' = L.data
                   /\ heap' = L.heap
                   /\ held' = held
                   /\ last' = Result("get", ScanFault(w), "raise", Answer(w, EmptyFn))
             [] OTHER ->
                   LET sel == Selected(tbl, L.heap, w)
                   IN  /\ data' = L.data
                       /\ heap' = Stamp(L.heap, sel)
                       /\ held' = held \cup Returned(sel)
                       /\ last' = Result("get", "none", "ok", Answer(w, sel))
    /\ UNCHANGED <<files, now, setup, peer>>

Get(c) == GetWhere(c, NoWhere)

\* a wrong pop: the selected entries leave the table
PopTaking(c, w) ==
    /\ data.kind = "none" => HasRoom(file, held)
    /\ LET L == Loaded(file, data, heap, held, now)
           t == TableName(c)
           tbl == Scanned(L.data, t)
           sel == IF L.fault # "none" \/ ScanRaises(tbl, L.heap, w) THEN EmptyFn
                  ELSE Selected(tbl, L.heap, w)
           rest == [k \in DOMAIN tbl \ DOMAIN sel |-> tbl[k]]
           d2 == IF DOMAIN sel = {} THEN L.data
                 ELSE [L.data EXCEPT !.tables = (t :> rest) @@ @]
       IN  /\ data' = d2
           /\ heap' = Collect(L.heap, held \cup StoredRefs(d2))
           /\ last' = Result("pop", L.fault, IF L.fault = "none" THEN "ok" ELSE "raise",
                             Answer(w, EmptyFn))
    /\ UNCHANGED <<held, files, now, setup, peer>>

\* pop: `table(**table_entry)` with table_entry a record instance, not a
\* mapping: TypeError as soon as one entry is selected
PopWhere(c, w) ==
    /\ data.kind = "none" => HasRoom(file, held)
    /\ LET L == Loaded(file, data, heap, held, now)
           tbl == Scanned(L.data, TableName(c))
       IN  CASE L.fault # "none" ->
                   /\ UNCHANGED <<data, heap>>
                   /\ last' = Result("pop", L.fault, "raise", Answer(w, EmptyFn))
             [] L.fault = "none" /\ ScanRaises(tbl, L.heap, w) ->
                   /\ data' = L.data
                   /\ heap' = L.heap
                   /\ last' = Result("pop", ScanFault(w), "raise", Answer(w, EmptyFn))
             [] OTHER ->
                   /\ data' = L.data
                   /\ heap' = L.heap
                   /\ last' = IF DOMAIN Selected(tbl, L.heap, w) = {}
                              THEN Result("pop", "none", "ok", Answer(w, EmptyFn))
                              ELSE Result("pop", "unpack", "raise", Answer(w, EmptyFn))
    /\ UNCHANGED <<held, files, now, setup, peer>>

Pop(c) == PopWhere(c, NoWhere)

----------------------------------------------------------------------------
(* put *)

\* a wrong allocation: one past the largest key
NextIdMonotonic(tbl) ==
    IF DOMAIN tbl = {} THEN 0
    ELSE (CHOOSE k \in DOMAIN tbl : \A j \in DOMAIN tbl : j <= k) + 1

\* a wrong allocation: the scan for a free key is skipped
NextIdZero(tbl) == 0

\* id = 0; while str(id) in table_data: id += 1
NextId(tbl) == Min({i \in 0..Cardinality(DOMAIN tbl) : i \notin DOMAIN tbl})

\* a wrong loop body: every entry is given a new identity
PutEntryAlwaysNew(st, e) ==
    LET id == NextId(st.tbl)
    IN  [heap |-> [st.heap EXCEPT ![e].id = id], tbl |-> (id :> e) @@ st.tbl]

\* the loop body of put: assign an identity if transient, then store by it
PutEntry(st, e) ==
    LET id == IF st.heap[e].id < 0 THEN NextId(st.tbl) ELSE st.heap[e].id
    IN  [heap |-> [st.heap EXCEPT ![e].id = id], tbl |-> (id :> e) @@ st.tbl]

RECURSIVE PutEntries(_, _)
PutEntries(st, es) ==
    IF es = <<>> THEN st ELSE PutEntries(PutEntry(st, Head(es)), Tail(es))

\* the entries of one put call: records the caller holds, of the table's type
EntrySeqs(c) ==
    LET mine == {r \in held : heap[r].cls = c}
    IN  UNION {[1..n -> mine] : n \in 0..MaxPut}

\* put without its effect on the file
PutCore(c, es) ==
    /\ data.kind = "none" => HasRoom(file, held)
    /\ LET L == Loaded(file, data, heap, held, now)
           t == TableName(c)
           args == [i \in DOMAIN es |-> [ref |-> es[i], id |-> heap[es[i]].id]]
       IN  CASE L.fault # "none" ->
                   /\ UNCHANGED <<data, heap>>
                   /\ last' = Result("put", L.fault, "raise", args)
             [] L.fault = "none" /\ L.data.kind = "list" ->
                   \* cls._data[table_name] = {} on a list: TypeError
                   /\ data' = L.data
                   /\ heap' = L.heap
                   /\ last' = Result("put", "type", "raise", args)
             [] OTHER ->
                   LET st == PutEntries([heap |-> L.heap, tbl |-> Scanned(L.data, t)], es)
                       d2 == [L.data EXCEPT !.tables = (t :> st.tbl) @@ @]
                   IN  /\ data' = d2
                       /\ heap' = Collect(st.heap, held \cup StoredRefs(d2))
                       /\ last' = Result("put", "none", "ok", args)
    /\ UNCHANGED <<held, now, setup, peer>>

\* a wrong put: write-through to the backing file
PutWriteThrough(c, es) ==
    /\ PutCore(c, es)
    /\ files' = [files EXCEPT ![path] =
            IF data'.kind = "dict" THEN EncodeDoc(data', heap') ELSE file]

Put(c, es) ==
    /\ PutCore(c, es)
    /\ files' = files

----------------------------------------------------------------------------
(* commit *)

\* a wrong handler: the new timestamp is kept after a failure
KeepNewStamp(previous, t) == t

\* the except branch: datetime.now() if previous_commit is None else previous_commit
RestoreStamp(previous, t) == IF previous = NoStamp THEN t ELSE previous

\* how Path.write_text ends: written, open() failed (missing directory,
\* permission), or write()/close() failed after open() truncated the file
IoOutcomes == {"ok", "open", "write"}

\* cls._file.write_text(text): open(mode="w") truncates, then writes
WriteText(io, f, text) ==
    CASE io = "ok" -> text
      [] io = "open" -> f
      [] OTHER -> GarbageFile

Commit(io) ==
    /\ data.kind = "none" => HasRoom(file, held)
    /\ LET L == Loaded(file, data, heap, held, now)
       IN  CASE L.fault # "none" ->
                   \* the rollback inside commit raised
                   /\ UNCHANGED <<data, heap, files>>
                   /\ last' = Result("commit", L.fault, "raise", <<>>)
             [] L.fault = "none" /\ L.data.kind = "list" ->
                   \* item assignment on a list raises in the try block and
                   \* again in the handler
                   /\ data' = L.data
                   /\ heap' = L.heap
                   /\ files' = files
                   /\ last' = Result("commit", "type", "raise", <<>>)
             [] OTHER ->
                   LET previous == L.data.last_commit
                       stamped == [L.data EXCEPT !.last_commit = now]
                       failed == [L.data EXCEPT !.last_commit = RestoreStamp(previous, now)]
                   IN  /\ heap' = L.heap
                       /\ IF ~Encodable(stamped, L.heap)
                          THEN \* json.dumps raised TypeError; the handler's
                               \* print reads e.errno: AttributeError
                               /\ data' = failed
                               /\ files' = files
                               /\ last' = Result("commit", "encode", "raise", <<>>)
                          ELSE /\ files' = [files EXCEPT ![path] =
                                        WriteText(io, file, EncodeDoc(stamped, L.heap))]
                               /\ data' = IF io = "ok" THEN stamped ELSE failed
                               /\ last' = Result("commit", IF io = "ok" THEN "none" ELSE io,
                                                 IF io = "ok" THEN "True" ELSE "False",
                                                 <<>>)
    /\ UNCHANGED <<held, now, setup, peer>>

----------------------------------------------------------------------------
(* last_commit *)

\* what _data["last_commit"] is: rollback's except branch and commit store
\* datetime.now(), and the datetime Decoder returns fromisoformat(...), so
\* the Dataset holds a datetime object, never the ISO string of the file
StampType(d) == IF d.last_commit = NoStamp THEN "missing" ELSE "datetime"

\* datetime.fromisoformat(x): TypeError unless x is a str
FromIsoFormatFault(type) == IF type = "str" THEN "none" ELSE "type"

\* return datetime.fromisoformat(cls._data["last_commit"])
LastCommit ==
    /\ data.kind = "none" => HasRoom(file, held)
    /\ LET L == Loaded(file, data, heap, held, now)
           fault == CASE L.fault # "none" -> L.fault
                      \* a list subscripted with a str: TypeError
                      [] L.fault = "none" /\ L.data.kind = "list" -> "type"
                      \* a dict without the key: KeyError
                      [] L.fault = "none" /\ L.data.kind = "dict"
                            /\ StampType(L.data) = "missing" -> "key"
                      [] OTHER -> FromIsoFormatFault(StampType(L.data))
       IN  /\ data' = L.data
           /\ heap' = L.heap
           /\ last' = Result("last_commit", fault,
                             IF fault = "none" THEN "ok" ELSE "raise", <<>>)
    /\ UNCHANGED <<held, files, now, setup, peer>>

----------------------------------------------------------------------------
(* file, register_encoder, register_decoder, the registrations of the module *)

\* new_file = None
NoPath == ""

\* a wrong file(): the Dataset is dropped, to be loaded again from the new path
FileReloading(p) ==
    /\ path' = IF p = NoPath THEN path ELSE p
    /\ data' = IF p = NoPath THEN data ELSE NoneData
    /\ heap' = IF p = NoPath THEN heap ELSE Collect(heap, held)
    /\ last' = Result("file", "none", "ok", <<p>>)
    /\ UNCHANGED <<held, files, encoders, decoders, now, peer>>

\* Database.file(new_file): `if new_file is not None: cls._file = new_file`
File(p) ==
    /\ path' = IF p = NoPath THEN path ELSE p
    /\ last' = Result("file", "none", "ok", <<p>>)
    /\ UNCHANGED <<heap, held, data, files, encoders, decoders, now, peer>>

\* the types a codec may be registered for: the built-in ones and one of the
\* caller's
CodecTypes == BuiltinTypes \cup {"Path"}

\* register_encoder / register_decoder on the registry reg: TypeError if the
\* type name is a key already, else the codec is entered
Register(reg, t) ==
    IF t \in reg THEN [raised |-> "TypeError", reg |-> reg]
    ELSE [raised |-> "none", reg |-> reg \cup {t}]

RegisterEncoder(t) ==
    /\ encoders' = Register(encoders, t).reg
    /\ last' = Result("register_encoder", Register(encoders, t).raised,
                      IF t \in encoders THEN "raise" ELSE "ok", <<t>>)
    /\ UNCHANGED <<heap, held, data, files, path, decoders, now, peer>>

RegisterDecoder(t) ==
    /\ decoders' = Register(decoders, t).reg
    /\ last' = Result("register_decoder", Register(decoders, t).raised,
                      IF t \in decoders THEN "raise" ELSE "ok", <<t>>)
    /\ UNCHANGED <<heap, held, data, files, path, encoders, now, peer>>

\* the (register, coder) pairs of the set literal at the foot of the module
Registrations ==
    {<<"encoder", "datetime">>, <<"decoder", "datetime">>,
     <<"encoder", "Table">>, <<"decoder", "Table">>}

\* a set is iterated in no particular order
Orders ==
    {o \in [1..Cardinality(Registrations) -> Registrations] :
        \A i, j \in DOMAIN o : o[i] = o[j] => i = j}

\* `except KeyError: pass`
Tolerated == {"KeyError"}

\* the loop: try: register(coder) / except KeyError: pass.  An exception
\* that is not tolerated ends the loop and leaves the module
RECURSIVE RunRegistrations(_, _, _)
RunRegistrations(o, enc, dec) ==
    IF o = <<>> THEN [raised |-> "none", enc |-> enc, dec |-> dec]
    ELSE LET r == Register(IF Head(o)[1] = "encoder" THEN enc ELSE dec, Head(o)[2])
             enc2 == IF Head(o)[1] = "encoder" THEN r.reg ELSE enc
             dec2 == IF Head(o)[1] = "encoder" THEN dec ELSE r.reg
         IN  IF r.raised \in Tolerated \cup {"none"}
             THEN RunRegistrations(Tail(o), enc2, dec2)
             ELSE [raised |-> r.raised, enc |-> enc2, dec |-> dec2]

\* the registrations of the module run on the registries of the class
StaticInit ==
    \E o \in Orders :
        LET r == RunRegistrations(o, encoders, decoders)
        IN  /\ encoders' = r.enc
            /\ decoders' = r.dec
            /\ last' = Result("static_init", r.raised,
                              IF r.raised = "none" THEN "ok" ELSE "raise", <<>>)
            /\ UNCHANGED <<heap, held, data, files, path, now, peer>>

----------------------------------------------------------------------------
(* add_package, as the loop of the add command calls it.  Of the four      *)
(* tables it stages into, the model follows the first, Project; `fail` is  *)
(* one of the checks that raise ValueError after the puts and before the   *)
(* commit (file exists, file too large, project too large).  add_impl      *)
(* catches the exception, logs it and goes on with the next file.          *)

\* names of the packages handed to the add command
PackageNames == {"a", "b", "ab"}

AddPackage(v, fail, io) ==
    /\ data.kind = "none" => HasRoom(file, held)
    /\ LET L == Loaded(file, data, heap, held, now)
           w == FieldEq(v)
           tbl == Scanned(L.data, "project")
           sel == Selected(tbl, L.heap, w)
           h1 == Stamp(L.heap, sel)
       IN  CASE L.fault # "none" ->
                   \* the rollback inside get raised
                   /\ UNCHANGED <<data, heap, files>>
                   /\ last' = Result("add_package", L.fault, "raise", <<>>)
             [] L.fault = "none" /\ ScanRaises(tbl, L.heap, w) ->
                   /\ data' = L.data
                   /\ heap' = L.heap
                   /\ files' = files
                   /\ last' = Result("add_package", ScanFault(w), "raise", <<>>)
             [] L.fault = "none" /\ ~ScanRaises(tbl, L.heap, w)
                    /\ Cardinality(DOMAIN sel) > 1 ->
                   \* raise ValueError("Multiple Projects found ...")
                   /\ data' = L.data
                   /\ heap' = Collect(h1, held \cup StoredRefs(L.data))
                   /\ files' = files
                   /\ last' = Result("add_package", "value", "raise", <<>>)
             [] L.fault = "none" /\ ~ScanRaises(tbl, L.heap, w)
                    /\ Cardinality(DOMAIN sel) = 0 /\ L.data.kind = "list" ->
                   \* put: cls._data[table_name] = {} on a list
                   /\ data' = L.data
                   /\ heap' = L.heap
                   /\ files' = files
                   /\ last' = Result("add_package", "type", "raise", <<>>)
             [] OTHER ->
                   /\ Cardinality(DOMAIN sel) = 0 => FreeRefs(h1) # {}
                   /\ LET new == Cardinality(DOMAIN sel) = 0
                          r == Min(FreeRefs(h1))
                          h2 == IF new THEN [h1 EXCEPT ![r] = NewRecord("Project", v)]
                                ELSE h1
                          st == IF new
                                THEN PutEntries([heap |-> h2, tbl |-> tbl], <<r>>)
                                ELSE [heap |-> h2, tbl |-> tbl]
                          d2 == IF new
                                THEN [L.data EXCEPT !.tables = ("project" :> st.tbl) @@ @]
                                ELSE L.data
                          staged == IF new THEN <<[ref |-> r, id |-> st.heap[r].id]>>
                                    ELSE <<>>
                          previous == d2.last_commit
                          stamped == [d2 EXCEPT !.last_commit = now]
                          failed == [d2 EXCEPT !.last_commit = RestoreStamp(previous, now)]
                      IN  /\ heap' = Collect(st.heap, held \cup StoredRefs(d2))
                          /\ IF fail
                             THEN \* raise ValueError(...) before Database.commit()
                                  /\ data' = d2
                                  /\ files' = files
                                  /\ last' = Result("add_package", "value", "raise", staged)
                             ELSE \* Database.commit(); its result is not looked at
                                  /\ files' = [files EXCEPT ![path] =
                                        WriteText(io, file, EncodeDoc(stamped, st.heap))]
                                  /\ data' = IF io = "ok" THEN stamped ELSE failed
                                  /\ last' = Result("add_package",
                                                    IF io = "ok" THEN "none" ELSE io,
                                                    "ok", staged)
    /\ UNCHANGED <<held, now, setup, peer>>

----------------------------------------------------------------------------
(* A second process: the same program, started separately, with the same   *)
(* backing path.  Its Dataset is kept by value, as the document its commit *)
(* would write.  It runs once: it loads, stages one record and commits.    *)

\* _data = None in the second process; `base` is the tables it loaded and
\* `over` the file content its last commit replaced
NoPeer == [at |-> "start", doc |-> AbsentFile, base |-> EmptyFn, over |-> AbsentFile]

\* the field of the record the second process stages
PeerName == "b"

\* rollback there: the document of the file, or {"last_commit": now}
PeerLoad ==
    /\ peer.at = "start"
    /\ file.kind \in {"absent", "garbage", "doc"}
    /\ LET doc == IF file.kind = "doc" THEN file
                  ELSE DocFile(EncodeDatetime(now), EmptyFn)
       IN  peer' = [at |-> "loaded", doc |-> doc, base |-> doc.tables, over |-> peer.over]
    /\ last' = Result("peer_load", "none", "ok", <<>>)
    /\ UNCHANGED <<heap, held, data, files, setup, now>>

\* a wrong scan for a free key: the keys of the file count as taken too
PeerKeysWithFile(doc, f) ==
    (IF "project" \in DOMAIN doc.tables THEN DOMAIN doc.tables["project"] ELSE {})
        \cup (IF "project" \in DOMAIN f.tables THEN DOMAIN f.tables["project"] ELSE {})

\* `while str(id) in table_data`: the keys of the process's own Dataset
PeerKeys(doc, f) ==
    IF "project" \in DOMAIN doc.tables THEN DOMAIN doc.tables["project"] ELSE {}

\* put there, of one new record
PeerPut ==
    /\ peer.at = "loaded"
    /\ LET tbl == IF "project" \in DOMAIN peer.doc.tables
                  THEN peer.doc.tables["project"] ELSE EmptyFn
           keys == PeerKeys(peer.doc, file)
           id == Min({i \in 0..Cardinality(keys) : i \notin keys})
           entry == EncodeRecord(NewRecord("Project", PeerName))
       IN  peer' = [peer EXCEPT !.at = "staged",
                               !.doc.tables = ("project" :> ((id :> entry) @@ tbl)) @@ @]
    /\ last' = Result("peer_put", "none", "ok", <<>>)
    /\ UNCHANGED <<heap, held, data, files, setup, now>>

\* a successful commit there: its whole Dataset replaces the file
PeerCommit ==
    /\ peer.at = "staged"
    /\ LET doc == DocFile(EncodeDatetime(now), peer.doc.tables)
       IN  /\ files' = [files EXCEPT ![path] = doc]
           /\ peer' = [peer EXCEPT !.at = "done", !.doc = doc, !.over = file]
    /\ last' = Result("peer_commit", "none", "True", <<>>)
    /\ UNCHANGED <<heap, held, data, setup, now>>

\* what another program may leave at the backing path: a document with a
\* type this process has no decoder for, or the empty object
ForeignFiles == {UnknownTypeFile, EmptyObjectFile}

ForeignWrite(f) ==
    /\ file # f
    /\ files' = [files EXCEPT ![path] = f]
    /\ last' = Result("foreign_write", "none", "ok", <<>>)
    /\ UNCHANGED <<heap, held, data, setup, peer, now>>

----------------------------------------------------------------------------
(* The caller and the environment *)

\* the caller constructs a record
New(c, v) ==
    /\ FreeRefs(heap) # {}
    /\ LET r == Min(FreeRefs(heap))
       IN  /\ heap' = [heap EXCEPT ![r] = NewRecord(c, v)]
           /\ held' = held \cup {r}
           /\ last' = Result("new", "none", "ok", <<>>)
    /\ UNCHANGED <<data, files, now, setup, peer>>

\* the caller assigns a field of a record it holds
Mutate(r, v) ==
    /\ r \in held
    /\ heap[r].name # v
    /\ heap' = [heap EXCEPT ![r].name = v]
    /\ last' = Result("mutate", "none", "ok", <<>>)
    /\ UNCHANGED <<held, data, files, now, setup, peer>>

\* Table.__eq__ alone, as a class without a generated __eq__ would have it:
\* equal identities decide, and two transient records fall to
\* object.__eq__, which knows only the object itself
TableEq(a, b, same) ==
    CASE a.cls # b.cls -> "False"
      [] a.cls = b.cls /\ a.id = Transient /\ b.id = Transient ->
            IF same THEN "True" ELSE "NotImplemented"
      [] a.cls = b.cls /\ ~(a.id = Transient /\ b.id = Transient) /\ a.id = b.id ->
            "True"
      [] OTHER -> "False"

\* the __eq__ a record class has: Project, Release, File and FileName are
\* declared with @dataclass, whose default eq=True writes an __eq__ into the
\* class itself, found before Table.__eq__: the field tuples are compared
\* when the classes are the same, NotImplemented otherwise; _id is no field
RecordEq(a, b, same) ==
    IF a.cls = b.cls
    THEN (IF a.name = b.name THEN "True" ELSE "False")
    ELSE "NotImplemented"

\* x == y: x.__eq__(y), then the reflected y.__eq__(x), then identity
Equal(h, x, y) ==
    LET direct == RecordEq(h[x], h[y], x = y)
        reflected == RecordEq(h[y], h[x], x = y)
    IN  CASE direct # "NotImplemented" -> direct = "True"
          [] direct = "NotImplemented" /\ reflected # "NotImplemented" ->
                reflected = "True"
          [] OTHER -> x = y

\* the caller compares two records it holds
Compare(x, y) ==
    /\ x \in held /\ y \in held
    /\ last' = Result("eq", "none", IF Equal(heap, x, y) THEN "True" ELSE "False",
                      <<[ref |-> x, id |-> heap[x].id], [ref |-> y, id |-> heap[y].id]>>)
    /\ UNCHANGED <<heap, held, data, files, now, setup, peer>>

\* the caller lets go of a record
Drop(r) ==
    /\ r \in held
    /\ held' = held \ {r}
    /\ heap' = Collect(heap, (held \ {r}) \cup StoredRefs(data))
    /\ last' = Result("drop", "none", "ok", <<>>)
    /\ UNCHANGED <<data, files, now, setup, peer>>

\* time passes between two calls of datetime.now()
Tick ==
    /\ now < MaxTime
    /\ now' = now + 1
    /\ last' = Result("tick", "none", "ok", <<>>)
    /\ UNCHANGED <<heap, held, data, files, setup, peer>>

----------------------------------------------------------------------------

\* a backing file left by an earlier run of the program; first-fit keys need
\* not be dense once a rollback has come between two puts
PriorDoc ==
    DocFile(EncodeDatetime(0),
            "project" :> (1 :> EncodeRecord(NewRecord("Project", "b"))))

\* what the store may find at the backing path when the process starts
InitialFiles ==
    {AbsentFile, GarbageFile, ArrayFile, UnknownTypeFile, EmptyObjectFile, PriorDoc}

\* the class body of Database (_file, _data, _encoders, _decoders) followed
\* by the registrations at the foot of the module; the file at the default
\* path is whatever an earlier run left, no other file exists yet
Init ==
    /\ heap = [r \in Refs |-> NoObj]
    /\ held = {}
    /\ data = NoneData
    /\ path = DefaultPath
    /\ \E f \in InitialFiles :
            files = [p \in Paths |-> IF p = DefaultPath THEN f ELSE AbsentFile]
    /\ encoders = BuiltinTypes
    /\ decoders = BuiltinTypes
    /\ peer = NoPeer
    /\ now = 0
    /\ last = Result("init", "none", "ok", <<>>)

\* a put call with any entries the caller can hand over
PutCall == \E c \in Classes : \E es \in EntrySeqs(c) : Put(c, es)

Next ==
    \/ Rollback
    \/ \E io \in IoOutcomes : Commit(io)
    \/ \E c \in Classes : Get(c)
    \/ \E c \in Classes : Pop(c)
    \/ LastCommit
    \/ PutCall
    \/ \E c \in Classes, v \in FieldVals : New(c, v)
    \/ \E r \in Refs, v \in FieldVals : Mutate(r, v)
    \/ \E r \in Refs : Drop(r)
    \/ Tick

Spec == Init /\ [][Next]_vars

\* The store without field changes and without the clock: every put, get,
\* pop, rollback and commit over records as constructed
NewDefault == \E c \in Classes : New(c, "a")

NextStore ==
    \/ Rollback
    \/ \E io \in IoOutcomes : Commit(io)
    \/ \E c \in Classes : Get(c)
    \/ \E c \in Classes : Pop(c)
    \/ PutCall
    \/ NewDefault
    \/ \E r \in Refs : Drop(r)

SpecStore == Init /\ [][NextStore]_vars

\* Persistence: records are staged one per put call, their fields change,
\* time passes, and the Dataset is committed and rolled back
PutOne ==
    \E c \in Classes : \E r \in {x \in held : heap[x].cls = c} : Put(c, <<r>>)

NextCommit ==
    \/ Rollback
    \/ \E io \in IoOutcomes : Commit(io)
    \/ PutOne
    \/ NewDefault
    \/ \E r \in Refs, v \in FieldVals : Mutate(r, v)
    \/ Tick

SpecCommit == Init /\ [][NextCommit]_vars

\* Records of two classes, staged, looked up and compared
AllClasses == {"Project", "Release"}

PutAny ==
    \E c \in AllClasses : \E r \in {x \in held : heap[x].cls = c} : Put(c, <<r>>)

NextEq ==
    \/ Rollback
    \/ \E c \in AllClasses : Get(c)
    \/ PutAny
    \/ \E c \in AllClasses, v \in Strs : New(c, v)
    \/ \E x, y \in Refs : Compare(x, y)
    \/ \E r \in Refs : Drop(r)

SpecEq == Init /\ [][NextEq]_vars

\* Lookups with predicates over records whose field holds strings, one of
\* them inside another, or a non-string
QueryVals == {"a", "ab", IntValue}
Literals == {"a", "ab", "^a$", "(", IntValue}
Wheres == {NoWhere} \cup {FieldEq(lit) : lit \in Literals}

NewQueried == \E c \in Classes, v \in QueryVals : New(c, v)

NextQuery ==
    \/ Rollback
    \/ \E c \in Classes, w \in Wheres : GetWhere(c, w)
    \/ PutOne
    \/ NewQueried
    \/ \E r \in Refs : Drop(r)

SpecQuery == Init /\ [][NextQuery]_vars

\* the same with pop in the place of get
NextPop ==
    \/ Rollback
    \/ \E c \in Classes, w \in Wheres : PopWhere(c, w)
    \/ PutOne
    \/ NewQueried
    \/ \E r \in Refs : Drop(r)

SpecPop == Init /\ [][NextPop]_vars

\* The backing path is set between the operations that stage, write and
\* reload records
NextFile ==
    \/ \E p \in Paths \cup {NoPath} : File(p)
    \/ Rollback
    \/ \E io \in IoOutcomes : Commit(io)
    \/ PutOne
    \/ NewDefault

SpecFile == Init /\ [][NextFile]_vars

\* Codecs are registered, and the registrations of the module run, between
\* the operations that use the codecs
NextRegistry ==
    \/ \E t \in CodecTypes : RegisterEncoder(t)
    \/ \E t \in CodecTypes : RegisterDecoder(t)
    \/ StaticInit
    \/ Rollback
    \/ \E io \in IoOutcomes : Commit(io)
    \/ PutOne
    \/ NewDefault

SpecRegistry == Init /\ [][NextRegistry]_vars

\* Scans with the literal predicates and with predicates on the identity,
\* over records staged by put and records loaded from the file
Identities == 0..1
ScanWheres == {NoWhere, TrueWhere, FalseWhere} \cup {IdEq(k) : k \in Identities}

NextScan ==
    \/ Rollback
    \/ \E io \in IoOutcomes : Commit(io)
    \/ \E c \in Classes, w \in ScanWheres : GetWhere(c, w)
    \/ \E c \in Classes, w \in ScanWheres : PopWhere(c, w)
    \/ PutOne
    \/ NewDefault
    \/ \E r \in Refs : Drop(r)

SpecScan == Init /\ [][NextScan]_vars

\* One run of the add command: add_package for one file after another,
\* while time passes
NextAdd ==
    \/ \E v \in PackageNames, fail \in BOOLEAN, io \in IoOutcomes : AddPackage(v, fail, io)
    \/ Tick

SpecAdd == Init /\ [][NextAdd]_vars

\* Two processes on one backing file: each loads on its first operation,
\* stages new records and commits successfully
NextShared ==
    \/ Commit("ok")
    \/ \E c \in Classes : Get(c)
    \/ PutOne
    \/ NewDefault
    \/ \E r \in Refs : Drop(r)
    \/ PeerLoad
    \/ PeerPut
    \/ PeerCommit

SpecShared == Init /\ [][NextShared]_vars

\* Records of different names staged, committed and rolled back; the
\* caller changes no field and receives no record from the store
NextReput ==
    \/ Rollback
    \/ \E io \in IoOutcomes : Commit(io)
    \/ PutOne
    \/ \E c \in Classes, v \in Strs : New(c, v)
    \/ \E r \in Refs : Drop(r)

SpecReput == Init /\ [][NextReput]_vars

\* The store while other programs change the backing file
NextForeign ==
    \/ Rollback
    \/ \E io \in IoOutcomes : Commit(io)
    \/ \E c \in Classes : Get(c)
    \/ \E c \in Classes : Pop(c)
    \/ LastCommit
    \/ PutOne
    \/ NewDefault
    \/ \E r \in Refs : Drop(r)
    \/ \E f \in ForeignFiles : ForeignWrite(f)

SpecForeign == Init /\ [][NextForeign]_vars

\* no record instance is stored under two keys of one table
OneKeyPerInstance ==
    \A t \in DOMAIN data.tables : \A j, k \in DOMAIN data.tables[t] :
        data.tables[t][j] = data.tables[t][k] => j = k

TypeOK ==
    /\ held \subseteq Refs
    /\ \A r \in held \cup StoredRefs(data) : heap[r] # NoObj
    /\ \A r \in Refs \ (held \cup StoredRefs(data)) : heap[r] = NoObj
    /\ now \in Time
    /\ data.last_commit \in Time \cup {NoStamp}
    /\ data.last_commit <= now

----------------------------------------------------------------------------
(* Shared vocabulary of the properties *)

\* the tables as a later get or commit sees them: every table, every key,
\* and the class and fields of the record under it
Records(d, h) ==
    [t \in DOMAIN d.tables |->
        [k \in DOMAIN d.tables[t] |->
            [cls |-> h[d.tables[t][k]].cls, name |-> h[d.tables[t][k]].name]]]

Contents == Records(data, heap)

\* the record a mutate step changed
Mutated == {r \in Refs : heap'[r] # heap[r]}

\* _data as the operation sees it once its lazy rollback has run
Entered == Loaded(file, data, heap, held, now)

PutDone == last.op = "put" /\ last.outcome = "ok"
GetDone == last.op = "get" /\ last.outcome = "ok"

----------------------------------------------------------------------------
(* C1 .. C10 *)

\* C1: records returned by get are independent copies: changing a field of a
\* record that get has just returned changes neither what a later get
\* returns nor what a later commit writes.
C1_GetReturnsCopies ==
    [][(/\ GetDone
        /\ last'.op = "mutate"
        /\ Mutated \subseteq Returned(Scanned(data, "project")))
       => Contents' = Contents]_vars

\* C2: a record handed to put is detached from the store: changing a field
\* of it after the put does not change the entry stored for its identity.
C2_PutDetaches ==
    [][(/\ PutDone
        /\ last'.op = "mutate"
        /\ Mutated \subseteq {last.args[i].ref : i \in DOMAIN last.args})
       => \A r \in Mutated :
            Contents'["project"][heap[r].id] = Contents["project"][heap[r].id]]_vars

\* C3: round trip: a successful commit followed by rollback yields the same
\* table names, the same keys in each table and field-equal records under
\* each key; last_commit is the one the commit stamped, which is greater
\* than or equal to the value before the commit.
C3_RoundTrip ==
    [][/\ (last'.op = "commit" /\ last'.outcome = "True")
          => /\ data'.last_commit >= Entered.data.last_commit
             /\ Contents' = Records(Entered.data, Entered.heap)
       /\ (last.op = "commit" /\ last.outcome = "True" /\ last'.op = "rollback")
          => /\ last'.outcome = "ok"
             /\ data'.kind = "dict"
             /\ DOMAIN data'.tables = DOMAIN data.tables
             /\ \A t \in DOMAIN data.tables :
                    DOMAIN data'.tables[t] = DOMAIN data.tables[t]
             /\ Contents' = Contents
             /\ data'.last_commit = data.last_commit]_vars

\* a rollback has reloaded what a commit of this run wrote: records under
\* their keys, and a timestamp later than any the initial file carries
C3_Witness ==
    /\ last.op = "rollback" /\ last.outcome = "ok"
    /\ data.kind = "dict" /\ data.last_commit > 0
    /\ StoredRefs(data) # {}
    /\ file = EncodeDoc(data, heap)

\* the keys in use when entry i of a put is reached: those of the table at
\* the call and the identities of the entries before i
KeysAt(i) ==
    DOMAIN Scanned(Entered.data, "project")
        \cup {heap'[last'.args[j].ref].id : j \in 1..(i - 1)}

\* C4: identity allocation is first-fit: put assigns a transient record the
\* smallest non-negative integer that is not a key of the table at that
\* moment, for every table content and number of transient records.
C4_FirstFit ==
    [][(last'.op = "put" /\ last'.outcome = "ok")
       => \A i \in DOMAIN last'.args :
            (/\ last'.args[i].id = Transient
             /\ \A j \in 1..(i - 1) : last'.args[j].ref # last'.args[i].ref)
            => LET k == heap'[last'.args[i].ref].id
               IN  /\ k >= 0
                   /\ k \notin KeysAt(i)
                   /\ \A j \in 0..(k - 1) : j \in KeysAt(i)]_vars

\* a put of one transient record has filled the gap below an existing key
C4_Witness ==
    /\ PutDone
    /\ Len(last.args) = 1
    /\ last.args[1].id = Transient
    /\ heap[last.args[1].ref].id = 0
    /\ 1 \in DOMAIN data.tables["project"]

\* the last entry of a put that carries identity k
LastWith(k) ==
    LET is == {i \in DOMAIN last'.args : heap'[last'.args[i].ref].id = k}
    IN  last'.args[CHOOSE i \in is : \A j \in is : j <= i].ref

\* C5: put of a record whose identity is already non-negative stores it
\* under the key equal to that identity, replacing the entry at that key,
\* without changing the record's identity and without adding, removing or
\* changing any other key; the table is created if it does not exist.
C5_PutKeepsIdentity ==
    [][(last'.op = "put" /\ last'.outcome = "ok")
       => LET before == Scanned(Entered.data, "project")
              ids == {last'.args[i].id : i \in DOMAIN last'.args}
          IN  /\ "project" \in DOMAIN data'.tables
              /\ \A i \in DOMAIN last'.args :
                    last'.args[i].id >= 0
                    => /\ heap'[last'.args[i].ref].id = last'.args[i].id
                       /\ last'.args[i].id \in DOMAIN data'.tables["project"]
                       /\ data'.tables["project"][last'.args[i].id]
                              = LastWith(last'.args[i].id)
              /\ (\A i \in DOMAIN last'.args : last'.args[i].id >= 0)
                    => /\ DOMAIN data'.tables["project"] = DOMAIN before \cup ids
                       /\ \A k \in DOMAIN before \ ids :
                              data'.tables["project"][k] = before[k]]_vars

\* a put of one record with an identity has replaced the entry at its key:
\* the caller still holds the replaced record, which carries the same identity
C5_Witness ==
    /\ PutDone
    /\ Len(last.args) = 1
    /\ last.args[1].id >= 0
    /\ data.tables["project"][last.args[1].id] = last.args[1].ref
    /\ \E y \in held \ StoredRefs(data) : heap[y].id = last.args[1].id

\* C6: put never changes the backing file: across put, get and pop calls the
\* file content stays what it was; only commit writes the file.
C6_OnlyCommitWrites ==
    [][last'.op \in {"put", "get", "pop"} => file' = file]_vars

\* a put has staged records that the document in the backing file lacks
C6_Witness ==
    /\ PutDone
    /\ Len(last.args) > 0
    /\ file.kind = "doc"
    /\ EncodeTables(data, heap) # file.tables

\* C7: commit never raises to its caller: when writing the backing file fails
\* with an I/O error or serializing the Dataset fails, commit returns False.
C7_CommitNeverRaises ==
    (last.op = "commit" /\ last.fault \in {"open", "write", "encode"})
        => last.outcome = "False"

\* C8 as stated: when a commit attempt fails, last_commit equals its value
\* before the attempt and every table and record is unchanged.
C8_FailedCommitRestoresAll ==
    [][(last'.op = "commit" /\ last'.outcome # "True")
       => /\ data' = Entered.data
          /\ heap' = Entered.heap]_vars

\* C8 amended: when a commit attempt fails, every table and record is
\* unchanged, and last_commit equals its value before the attempt if the
\* Dataset had one; a Dataset mapping that had no last_commit is left
\* stamped with the time of the failed attempt.
C8_FailedCommitRestores ==
    [][(last'.op = "commit" /\ last'.outcome # "True")
       => /\ data'.kind = Entered.data.kind
          /\ data'.tables = Entered.data.tables
          /\ heap' = Entered.heap
          /\ Entered.data.last_commit # NoStamp
                => data'.last_commit = Entered.data.last_commit
          /\ (/\ Entered.data.last_commit = NoStamp
              /\ last'.fault \in {"open", "write", "encode"})
                => data'.last_commit = now]_vars

\* a write failed on a Dataset with records whose timestamp is older than
\* the clock: the handler had a newer timestamp to take back
C8_Witness ==
    /\ last.op = "commit" /\ last.outcome = "False"
    /\ data.last_commit # NoStamp
    /\ data.last_commit < now
    /\ StoredRefs(data) # {}

\* C9: commit is all-or-nothing on disk: after any commit attempt the file
\* holds the complete serialization of the Dataset of that commit or exactly
\* the content it had before; never an empty or partial file.
C9_AllOrNothing ==
    [][last'.op = "commit"
       => \/ file' = file
          \/ file' = EncodeDoc(data', heap')]_vars

\* C10: rollback never fails on a bad backing file: if the file is absent,
\* not valid JSON, or valid JSON without the expected document structure,
\* rollback installs a fresh Dataset with no tables and last_commit stamped
\* with the current time, and a following get returns nothing.
C10_RollbackTolerant ==
    (last.op = "rollback" /\ file.kind \in {"absent", "garbage", "array", "unknown"})
        => /\ last.outcome = "ok"
           /\ data = FreshData(now)
           /\ Scanned(data, "project") = EmptyFn

----------------------------------------------------------------------------
(* C11 .. C20 *)

\* C11: last_commit returns the Dataset's last-commit timestamp without
\* error: when the Dataset was not loaded (loading it first), after a
\* rollback of an absent file, after a rollback of a committed file, and
\* after a commit.
C11_LastCommitReturns ==
    (last.op = "last_commit" /\ data.kind = "dict" /\ data.last_commit # NoStamp)
        => last.outcome = "ok"

\* the comparison this state is the result of
EqDone == last.op = "eq"
Left == heap[last.args[1].ref]
Right == heap[last.args[2].ref]

\* C12: two records of the same concrete type that have the same
\* non-negative identity compare equal even when their field values differ.
C12_SameIdentityEqual ==
    (EqDone /\ Left.cls = Right.cls /\ Left.id >= 0 /\ Left.id = Right.id)
        => last.outcome = "True"

\* C13: two records of the same concrete type with identical field values
\* compare unequal once their identities differ, in particular when one has
\* been persisted by put and the other is still transient.
C13_IdentityDiffersUnequal ==
    (EqDone /\ Left.cls = Right.cls /\ Left.name = Right.name /\ Left.id # Right.id)
        => last.outcome = "False"

\* C14: two transient records of the same concrete type compare equal
\* exactly when all their fields are equal, and two records of different
\* concrete types never compare equal whatever their identities and fields.
C14_TransientStructural ==
    EqDone =>
        /\ (Left.cls = Right.cls /\ Left.id = Transient /\ Right.id = Transient)
              => (last.outcome = "True" <=> Left.name = Right.name)
        /\ Left.cls # Right.cls => last.outcome = "False"

\* two distinct transient instances of one class with equal fields have been
\* compared and found equal
C14_Witness ==
    /\ EqDone
    /\ last.args[1].ref # last.args[2].ref
    /\ Left.cls = Right.cls
    /\ Left.id = Transient /\ Right.id = Transient
    /\ Left.name = Right.name
    /\ last.outcome = "True"

\* the table as the get or pop that produced this state scanned it
Table == Scanned(data, "project")
Asked == last.args.where
Got == {last.args.result[i] : i \in DOMAIN last.args.result}

\* C15: pop returns, for exactly the entries get would return and in the
\* same order, freshly constructed field-equal records with identity -1; in
\* particular it returns normally when the table has a matching entry.
C15_PopReturnsCopies ==
    (/\ last.op = "pop"
     /\ last.fault \notin {"decode", "search"}
     /\ DOMAIN Selected(Table, heap, Asked) # {})
        => last.outcome = "ok"

\* C16: pop removes nothing: the keys of every table and the entry stored
\* under each key are the same after pop as before it, whether pop returns
\* or fails.
C16_PopRemovesNothing ==
    [][last'.op = "pop"
       => /\ data'.tables = Entered.data.tables
          /\ \A r \in StoredRefs(Entered.data) : heap'[r] = Entered.heap[r]]_vars

\* a pop has failed on a selected entry of a table that holds records
C16_Witness ==
    /\ last.op = "pop" /\ last.fault = "unpack"
    /\ DOMAIN Table # {}

\* sequences a match may have before and after it
Affixes == UNION {[1..n -> {"a", "b"}] : n \in 0..2}

\* the characters cs occur in the string v: at its start, at its end,
\* anywhere
Occurs(cs, v, start, end) ==
    \E pre, post \in Affixes :
        /\ Chars(v) = pre \o cs \o post
        /\ start => pre = <<>>
        /\ end => post = <<>>

\* C17: a field-equality predicate built with a string literal that is a
\* valid regular expression is satisfied by a record exactly when the
\* field's string value contains a match for the pattern anywhere, not only
\* when the field equals the literal.
C17_EqualityIsSearch ==
    (GetDone /\ Asked.kind # "none" /\ Asked.lit \in {"a", "ab", "^a$"})
        => Got = {r \in Range(Table) :
                    /\ IsStr(heap[r].name)
                    /\ Occurs(IF Asked.lit = "^a$" THEN <<"a">> ELSE Chars(Asked.lit),
                              heap[r].name, Asked.lit = "^a$", Asked.lit = "^a$")}

\* a get for the literal "a" has returned a record whose field is "ab"
C17_Witness ==
    /\ GetDone
    /\ Asked = FieldEq("a")
    /\ \E r \in Got : heap[r].name = "ab"

\* C18: an equality predicate never raises, neither when it is built nor
\* when get evaluates it during a scan: with a literal that is not a valid
\* pattern or not a string, and with a valid pattern compared against a
\* field value that is not a string, it falls back to exact equality.
C18_EqualityNeverRaises ==
    (last.op = "get" /\ last.fault # "decode" /\ Asked.kind # "none")
        => /\ last.outcome = "ok"
           /\ Asked.lit \in {"(", IntValue}
                => Got = {r \in Range(Table) : heap[r].name = Asked.lit}

\* C19: setting the backing path leaves the in-memory Dataset and both files
\* unchanged; the next commit writes the current in-memory Dataset to the
\* new path only, and the next rollback reads the new path only.
C19_FileOnlyRedirects ==
    [][/\ last'.op = "file"
          => /\ data' = data /\ heap' = heap /\ files' = files
             /\ last'.args[1] # NoPath => path' = last'.args[1]
             /\ last'.args[1] = NoPath => path' = path
       /\ last'.op # "file" => path' = path
       /\ last'.op = "commit"
          => /\ \A q \in Paths \ {path} : files'[q] = files[q]
             /\ last'.outcome = "True"
                   => /\ files'[path] = EncodeDoc(data', heap')
                      /\ Records(data', heap') = Records(Entered.data, Entered.heap)
       /\ (last'.op = "rollback" /\ last'.outcome = "ok")
          => /\ files' = files
             /\ files[path].kind = "doc"
                   => /\ EncodeTables(data', heap') = files[path].tables
                      /\ EncodeDoc(data', heap').last_commit = files[path].last_commit
             /\ files[path].kind \in {"absent", "garbage"} => data' = FreshData(now)]_vars

\* after the path was set to the other file, a commit has written the staged
\* records there, and the file at the default path is still the earlier
\* document, which lacks them
C19_Witness ==
    /\ last.op = "commit" /\ last.outcome = "True"
    /\ path # DefaultPath
    /\ StoredRefs(data) # {}
    /\ files[path] = EncodeDoc(data, heap)
    /\ files[DefaultPath] = PriorDoc
    /\ files[DefaultPath].tables # files[path].tables

\* C20: registering a codec for a type that already has one fails with the
\* duplicate-codec error and leaves the registry unchanged, except during
\* the static initialization of the store, where running the built-in
\* registrations a second time is tolerated silently and raises nothing.
C20_DuplicateCodec ==
    [][/\ (last'.op = "register_encoder" /\ last'.args[1] \in encoders)
          => /\ last'.outcome = "raise" /\ last'.fault = "TypeError"
             /\ encoders' = encoders /\ decoders' = decoders
       /\ (last'.op = "register_decoder" /\ last'.args[1] \in decoders)
          => /\ last'.outcome = "raise" /\ last'.fault = "TypeError"
             /\ encoders' = encoders /\ decoders' = decoders
       /\ last'.op = "static_init"
          => /\ last'.outcome = "ok"
             /\ BuiltinTypes \subseteq encoders'
             /\ BuiltinTypes \subseteq decoders']_vars

----------------------------------------------------------------------------
(* C21 .. C30 *)

\* the operations of the store that C21 names
StoreOps == {"put", "get", "pop", "commit", "rollback"}

\* C21: identity lifecycle: every newly constructed record has identity -1,
\* and once a record instance carries a non-negative identity no later put,
\* get, pop, commit or rollback changes it.  The instances followed are
\* those the caller holds and, in a step that loads nothing, those that
\* stay in the Dataset.
C21_IdentityLifecycle ==
    [][/\ last'.op = "new" => \A r \in held' \ held : heap'[r].id = Transient
       /\ last'.op \in StoreOps
            => LET staying == IF data.kind = "none" \/ last'.op = "rollback" THEN {}
                              ELSE StoredRefs(data) \cap StoredRefs(data')
               IN  \A r \in held \cup staying :
                        heap[r].id >= 0 => heap'[r].id = heap[r].id]_vars

\* a record that put gave an identity has been through a get and a rollback:
\* the caller holds it with that identity, outside the reloaded Dataset
C21_Witness ==
    /\ last.op = "rollback"
    /\ last.outcome = "ok"
    /\ \E r \in held : heap[r].id >= 0 /\ r \notin StoredRefs(data)

\* C26: put of a transient record never replaces an existing entry: every
\* key of the table before the put, other than the identities that entries
\* of the call already carried, maps to the same entry after it, and the
\* distinct transient records of one put receive pairwise distinct
\* identities.
C26_TransientNeverReplaces ==
    [][(last'.op = "put" /\ last'.outcome = "ok")
       => LET before == Scanned(Entered.data, "project")
              after == data'.tables["project"]
              carried == {last'.args[i].id : i \in DOMAIN last'.args} \ {Transient}
              fresh == {last'.args[i].ref : i \in {j \in DOMAIN last'.args :
                                                      last'.args[j].id = Transient}}
          IN  /\ \A k \in DOMAIN before \ carried :
                    /\ k \in DOMAIN after
                    /\ after[k] = before[k]
                    /\ heap'[after[k]] = Entered.heap[before[k]]
              /\ \A x, y \in fresh : x # y => heap'[x].id # heap'[y].id]_vars

\* a transient record has been put into a table that had an entry at key 0:
\* it sits at key 1 and the entry at key 0 is another record
C26_Witness ==
    /\ PutDone
    /\ Len(last.args) = 1
    /\ last.args[1].id = Transient
    /\ heap[last.args[1].ref].id = 1
    /\ 0 \in DOMAIN data.tables["project"]
    /\ data.tables["project"][0] # last.args[1].ref

\* C25: during a get scan every candidate record is presented to the
\* predicate with its identity equal to its storage key, whether staged by
\* put or loaded by rollback: a get with a predicate on identity k returns
\* exactly the record stored under k.
C25_IdentityPredicateSelectsKey ==
    (GetDone /\ Asked.kind = "id")
    => Got = {Table[k] : k \in DOMAIN Table \cap {Asked.lit}}

\* C30: get and pop called with the literal False return an empty sequence
\* without raising, for an empty table and for a table with entries alike.
C30_FalseSelectsNothing ==
    (last.op \in {"get", "pop"} /\ Asked.kind = "false" /\ last.fault # "decode")
    => (last.outcome = "ok" /\ Got = {})

\* the project table of a file
FileTable(f) ==
    IF f.kind = "doc" /\ "project" \in DOMAIN f.tables THEN f.tables["project"]
    ELSE EmptyFn

\* C28: commit on a store that has not been loaded yet first loads the
\* backing file: when the file holds tables and records, the file after
\* that commit holds the same tables, keys and records; existing data is
\* never wiped.
C28_UnloadedCommitKeepsData ==
    [][(last'.op = "commit" /\ data.kind = "none"
            /\ file.kind = "doc" /\ file.tables # EmptyFn)
       => (file'.kind = "doc" /\ file'.tables = file.tables)]_vars

\* C29: the records an add_package staged with put before it failed are not
\* written to the backing file by the commit of the next successful
\* add_package of the same run (here one that adds a project of its own).
C29_FailedAddNotWritten ==
    [][(/\ last.op = "add_package" /\ last.outcome = "raise"
        /\ last'.op = "add_package" /\ last'.outcome = "ok" /\ last'.fault = "none"
        /\ last'.args # <<>>)
       => \A i \in DOMAIN last.args :
            last.args[i].id \notin DOMAIN FileTable(file)
            => last.args[i].id \notin DOMAIN FileTable(file')]_vars

\* the operations that load an unloaded store on their way
ImplicitOps == {"get", "pop", "put", "commit", "last_commit"}

C24_UndecodableKeepsDataset ==
    [][(/\ file.kind = "unknown"
        /\ \/ last'.op = "rollback"
           \/ last'.op \in ImplicitOps /\ data.kind = "none")
       => /\ last'.outcome = "raise"
          /\ last'.fault = "decode"
          /\ data' = data
          /\ heap' = heap
          /\ files' = files]_vars

\* an explicit rollback has failed on such a file while the Dataset held
\* records: they are still there
C24_Witness ==
    /\ last.op = "rollback"
    /\ last.fault = "decode"
    /\ data.kind = "dict"
    /\ StoredRefs(data) # {}

\* the project table among the tables of a document
TableOf(tbls) == IF "project" \in DOMAIN tbls THEN tbls["project"] ELSE EmptyFn

\* C23: lost update between processes: two processes have loaded the same
\* file, each has put one new record and committed, the second process
\* last.  The file then holds the second process's table only: the first
\* process's record is gone, and both records were given the same identity.
C23_LostUpdate ==
    LET base == TableOf(peer.base)
        mine == FileTable(peer.over)
        theirs == TableOf(peer.doc.tables)
    IN  (/\ last.op = "peer_commit"
         /\ peer.over = EncodeDoc(data, heap)
         /\ \E k \in DOMAIN mine \ DOMAIN base :
                /\ DOMAIN mine = DOMAIN base \cup {k}
                /\ \A j \in DOMAIN base : mine[j] = base[j])
        => /\ FileTable(file) = theirs
           /\ DOMAIN theirs = DOMAIN mine
           /\ \A k \in DOMAIN mine \ DOMAIN base :
                /\ theirs[k] = EncodeRecord(NewRecord("Project", PeerName))
                /\ FileTable(file)[k] # mine[k]

\* the second process has committed over the first one's commit: the file
\* it replaced held the first process's new record next to an older one
C23_Witness ==
    /\ last.op = "peer_commit"
    /\ peer.over = EncodeDoc(data, heap)
    /\ DOMAIN TableOf(peer.base) = {1}
    /\ DOMAIN FileTable(peer.over) = {0, 1}
    /\ DOMAIN FileTable(file) = {0, 1}

\* C27: after rollback has discarded a put, putting that record instance
\* again does not replace a different record that rollback loaded: the
\* entry the reloaded table has at the key of the record's old identity, a
\* record as decoded from the file and of another name, stays.
C27_ReputReplacesNothing ==
    [][(/\ last'.op = "put" /\ last'.outcome = "ok"
        /\ Len(last'.args) = 1
        /\ last'.args[1].id >= 0
        /\ last'.args[1].ref \notin StoredRefs(Entered.data))
       => LET before == Scanned(Entered.data, "project")
              k == last'.args[1].id
          IN  (/\ k \in DOMAIN before
               /\ Entered.heap[before[k]].id = Transient
               /\ Entered.heap[before[k]].name # heap[last'.args[1].ref].name)
              => data'.tables["project"][k] = before[k]]_vars

====
